---- MODULE Spec2Model ----
(***************************************************************************)
(* Model of extract_inspection_table ("classes/vestas_pdf_extractor 1.py"):*)
(* the line-by-line text pass, the table pass and the final flush that     *)
(* rebuild the list of inspection items of a Vestas service report.        *)
(*                                                                         *)
(* Text is a sequence of one-character strings, so that endswith, strip,   *)
(* split and the regular expressions are computed character by character.  *)
(***************************************************************************)
EXTENDS Integers, Sequences, FiniteSets, TLC

\* ------------------------------------------------------------------------
\* Bounds of the model
\* ------------------------------------------------------------------------
MaxLines == 3
MaxRows == 2

\* ------------------------------------------------------------------------
\* Python values
\* ------------------------------------------------------------------------
\* None, and the state of the local `status` before its first assignment.
\* Both are one-element sequences holding a long string, so that they never
\* equal a text (whose elements are single characters).
None == << "None" >>
Unbound == << "unbound" >>

\* bool(x) for x a str or None
Truthy(x) == x # None /\ x # << >>

SetMin(S) == CHOOSE m \in S : \A n \in S : m <= n
SetMax(S) == CHOOSE m \in S : \A n \in S : m >= n
Range(s) == { s[i] : i \in 1..Len(s) }

\* ------------------------------------------------------------------------
\* str methods
\* ------------------------------------------------------------------------
IsSpace(c) == c \in {" ", "\t"}
IsDigit(c) == c \in {"0", "1", "2", "3", "4", "5", "6", "7", "8", "9"}

Lowercase == << "a","b","c","d","e","f","g","h","i","j","k","l","m",
                "n","o","p","q","r","s","t","u","v","w","x","y","z" >>
Uppercase == << "A","B","C","D","E","F","G","H","I","J","K","L","M",
                "N","O","P","Q","R","S","T","U","V","W","X","Y","Z" >>

\* mutation of UpperChar: no conversion to upper case
UpperCharUnchanged(c) == c

UpperChar(c) ==
    IF \E i \in 1..26 : Lowercase[i] = c
    THEN Uppercase[CHOOSE i \in 1..26 : Lowercase[i] = c]
    ELSE c

\* s.upper()
Upper(s) == [ i \in 1..Len(s) |-> UpperChar(s[i]) ]

\* s[i:] with i 1-based
From(s, i) == SubSeq(s, i, Len(s))

\* s.strip()
Strip(s) ==
    LET keep == { i \in 1..Len(s) : ~IsSpace(s[i]) }
    IN  IF keep = {} THEN << >> ELSE SubSeq(s, SetMin(keep), SetMax(keep))

\* s.startswith(p, i-1)
MatchAt(s, p, i) ==
    /\ i >= 1
    /\ i + Len(p) - 1 <= Len(s)
    /\ SubSeq(s, i, i + Len(p) - 1) = p

\* s.endswith(p)
EndsWith(s, p) == Len(p) <= Len(s) /\ From(s, Len(s) - Len(p) + 1) = p

\* p in s
Contains(s, p) == \E i \in 1..(Len(s) + 1) : MatchAt(s, p, i)

\* s.split(":", 1) for a text that contains ":"
SplitColon(s) ==
    LET k == SetMin({ i \in 1..Len(s) : s[i] = ":" })
    IN  << SubSeq(s, 1, k - 1), From(s, k + 1) >>

\* ------------------------------------------------------------------------
\* Status tokens and the literals of the source
\* ------------------------------------------------------------------------
TokOK == << "O","K" >>
TokNOTOK == << "N","O","T"," ","O","K" >>
TokNOK == << "N","O","K" >>
TokNA == << "N","/","A" >>
TokNotApplicable ==
    << "N","o","t"," ","A","p","p","l","i","c","a","b","l","e" >>

\* the list ["OK", "NOT OK", "NOK", "N/A", "Not Applicable"], which is also
\* the order of the alternation (OK|NOT OK|NOK|N/A|Not Applicable)
status_patterns == << TokOK, TokNOTOK, TokNOK, TokNA, TokNotApplicable >>

FormMarker ==
    << "S","e","r","v","i","c","e"," ","I","n","s","p","e","c","t","i","o",
       "n"," ","F","o","r","m" >>
DmsMarker == << "0","."," ","D","M","S",":" >>

\* ------------------------------------------------------------------------
\* Regular expressions
\* ------------------------------------------------------------------------
\* length of the run of digits of s that starts at position i
DigitRun(s, i) ==
    SetMax({ k \in 0..(Len(s) - i + 1) : \A j \in i..(i + k - 1) : IsDigit(s[j]) })

\* length of the run of whitespace of s that starts at position i
SpaceRun(s, i) ==
    SetMax({ k \in 0..(Len(s) - i + 1) : \A j \in i..(i + k - 1) : IsSpace(s[j]) })

\* re.match(r'^\d+\.\d+', s): the length of the match, 0 when there is none
inspection_line_pattern(s) ==
    LET a == DigitRun(s, 1)
    IN  IF a >= 1 /\ a + 2 <= Len(s) /\ s[a + 1] = "." /\ DigitRun(s, a + 2) >= 1
        THEN a + 1 + DigitRun(s, a + 2)
        ELSE 0

\* re.match(r'^\d+\.\d+$', s)
FullItemNumber(s) == inspection_line_pattern(s) = Len(s) /\ Len(s) > 0

NoMatch == [matched |-> FALSE, g1 |-> None, g2 |-> None, g3 |-> None]

\* re.match(r'^(\d+\.\d+)\s+(.+?)(?:\s*(OK|NOT OK|NOK|N/A|Not Applicable)\s*)?$', line)
\* Group 2 is lazy: it is the shortest non-empty text after which the rest of
\* the line is either empty or a status token surrounded by whitespace.
item_number_pattern(line) ==
    LET n == inspection_line_pattern(line)
        w == IF n = 0 THEN 0 ELSE SpaceRun(line, n + 1)
        R == From(line, n + w + 1)
        Ok(k) == \/ From(R, k + 1) = << >>
                 \/ Strip(From(R, k + 1)) \in Range(status_patterns)
    IN  IF n = 0 \/ w = 0 THEN NoMatch
        ELSE IF R = << >>
        THEN \* only whitespace follows the number: \s+ gives one back to group 2
             IF w >= 2
             THEN [matched |-> TRUE, g1 |-> SubSeq(line, 1, n),
                   g2 |-> << line[n + w] >>, g3 |-> None]
             ELSE NoMatch
        ELSE LET k == SetMin({ j \in 1..Len(R) : Ok(j) })
                 tail == From(R, k + 1)
             IN  [matched |-> TRUE, g1 |-> SubSeq(line, 1, n),
                  g2 |-> SubSeq(R, 1, k),
                  g3 |-> IF tail = << >> THEN None ELSE Strip(tail)]

\* re.search(r'(OK|NOT OK|NOK|N/A|Not Applicable)$', line): the 1-based start
\* of the leftmost match, 0 when there is none
SearchStatusAtEnd(line) ==
    LET hits == { i \in 1..Len(line) : From(line, i) \in Range(status_patterns) }
    IN  IF hits = {} THEN 0 ELSE SetMin(hits)

\* re.search(r'(OK|NOT OK|NOK|N/A|Not Applicable)', cell): group 1 of the
\* leftmost match (first alternative that matches there), None when none
SearchStatusAnywhere(cell) ==
    LET at(i) == { j \in 1..Len(status_patterns) : MatchAt(cell, status_patterns[j], i) }
        hits == { i \in 1..Len(cell) : at(i) # {} }
    IN  IF hits = {} THEN None
        ELSE status_patterns[SetMin(at(SetMin(hits)))]

\* mutation of EndswithLoop: the status is read but the pattern is not
\* removed from the text
EndswithLoopKeepsText(text) ==
    LET hits == { j \in 1..Len(status_patterns) : EndsWith(text, status_patterns[j]) }
    IN  IF hits = {} THEN [text |-> text, status |-> << >>]
        ELSE [text |-> text, status |-> Upper(status_patterns[SetMin(hits)])]

\* for pattern in status_patterns: if text.endswith(pattern): ... break
\* The first pattern of the list that is a suffix is removed; status is ""
\* when no pattern is a suffix.
EndswithLoop(text) ==
    LET hits == { j \in 1..Len(status_patterns) : EndsWith(text, status_patterns[j]) }
    IN  IF hits = {} THEN [text |-> text, status |-> << >>]
        ELSE LET p == status_patterns[SetMin(hits)]
             IN  [text |-> Strip(SubSeq(text, 1, Len(text) - Len(p))),
                  status |-> Upper(p)]

\* ------------------------------------------------------------------------
\* extract_inspection_table: the locals of the function as one record
\*   [inspection_items, items_seen, current_item_number,
\*    current_description, current_comment, status]
\* ------------------------------------------------------------------------
Item(n, d, c, s) ==
    [item_number |-> n, description |-> d, comment |-> c, status |-> s]

\* status if 'status' in locals() else ""
StatusOrEmpty(s) == IF s = Unbound THEN << >> ELSE s

\* mutation of FlushCurrent: the draft is committed without looking at
\* items_seen
FlushCurrentUnguarded(st) ==
    IF Truthy(st.current_item_number)
    THEN [st EXCEPT
            !.items_seen = @ \cup {st.current_item_number},
            !.inspection_items =
                Append(@, Item(st.current_item_number, st.current_description,
                               st.current_comment, StatusOrEmpty(st.status)))]
    ELSE st

\* mutation of FlushCurrent: the draft is inserted at the head of the list
FlushCurrentFront(st) ==
    IF Truthy(st.current_item_number) /\ st.current_item_number \notin st.items_seen
    THEN [st EXCEPT
            !.items_seen = @ \cup {st.current_item_number},
            !.inspection_items =
                << Item(st.current_item_number, st.current_description,
                        st.current_comment, StatusOrEmpty(st.status)) >> \o @]
    ELSE st

\* if current_item_number and current_item_number not in items_seen: commit
\* the draft (the same statements before a new item and after the table pass)
FlushCurrent(st) ==
    IF Truthy(st.current_item_number) /\ st.current_item_number \notin st.items_seen
    THEN [st EXCEPT
            !.items_seen = @ \cup {st.current_item_number},
            !.inspection_items =
                Append(@, Item(st.current_item_number, st.current_description,
                               st.current_comment, StatusOrEmpty(st.status)))]
    ELSE st

\* mutation of MergeDuplicate: the new text is put before the old one
MergeDuplicatePrepend(items, item_number, description, comment) ==
    [ i \in 1..Len(items) |->
        IF items[i].item_number = item_number
        THEN [items[i] EXCEPT !.description = description \o << " " >> \o @]
        ELSE items[i] ]

\* mutation of MergeDuplicate: the description of the entry is replaced
MergeDuplicateReplace(items, item_number, description, comment) ==
    [ i \in 1..Len(items) |->
        IF items[i].item_number = item_number
        THEN [items[i] EXCEPT !.description = description]
        ELSE items[i] ]

\* for item in inspection_items: if item['item_number'] == item_number: ...
MergeDuplicate(items, item_number, description, comment) ==
    [ i \in 1..Len(items) |->
        IF items[i].item_number = item_number
        THEN [items[i] EXCEPT
                !.description = @ \o << " " >> \o description,
                !.comment = IF Truthy(comment)
                            THEN IF Truthy(@) THEN @ \o << " " >> \o comment
                                 ELSE comment
                            ELSE @]
        ELSE items[i] ]

\* the branch of a line that continues the open item
ContinuationLine(st, line) ==
    LET k == SearchStatusAtEnd(line)
        text == IF k > 0 THEN Strip(SubSeq(line, 1, k - 1)) ELSE line
        st1 == IF k > 0 THEN [st EXCEPT !.status = Upper(From(line, k))] ELSE st
    IN  IF Truthy(st.current_comment)
        THEN [st1 EXCEPT !.current_comment = @ \o << " " >> \o text]
        ELSE [st1 EXCEPT !.current_description = @ \o << " " >> \o text]

\* the fields (item_number, description, comment, status) read from a line
\* that matches item_number_pattern
ParseStartLine(m) ==
    LET d0 == Strip(m.g2)
        s0 == IF Truthy(m.g3) THEN Upper(m.g3) ELSE << >>
        e1 == IF s0 = << >> THEN EndswithLoop(d0) ELSE [text |-> d0, status |-> s0]
        hasColon == Contains(e1.text, << ":" >>)
        parts == IF hasColon THEN SplitColon(e1.text) ELSE << e1.text, << >> >>
        description == IF hasColon THEN Strip(parts[1]) ELSE e1.text
        comment_text == Strip(parts[2])
        e2 == IF hasColon /\ Truthy(comment_text) /\ e1.status = << >>
              THEN EndswithLoop(comment_text)
              ELSE [text |-> comment_text, status |-> e1.status]
        comment == IF hasColon /\ Truthy(comment_text) THEN e2.text ELSE None
    IN  Item(Strip(m.g1), description, comment, e2.status)

\* the branch of a line that matches item_number_pattern
StartLine(st, m) ==
    LET f == FlushCurrent(st)
        new == ParseStartLine(m)
        cur == [f EXCEPT !.status = new.status,
                         !.current_item_number = new.item_number,
                         !.current_description = new.description,
                         !.current_comment = new.comment]
    IN  IF new.item_number \in cur.items_seen
        THEN [cur EXCEPT !.inspection_items =
                 MergeDuplicate(@, new.item_number, new.description, new.comment)]
        ELSE IF Truthy(new.status)
        THEN [cur EXCEPT !.items_seen = @ \cup {new.item_number},
                         !.inspection_items = Append(@, new)]
        ELSE cur

\* mutation of IsSkipped: only blank lines are skipped
IsSkippedBlankOnly(line) == Strip(line) = << >>

\* the lines that the text pass skips
IsSkipped(line) ==
    \/ Strip(line) = << >>
    \/ Contains(line, FormMarker)
    \/ Contains(line, DmsMarker)

IsContinuation(st, line) ==
    Truthy(st.current_item_number) /\ inspection_line_pattern(line) = 0

\* the body of the loop over the lines of the text
ProcessLine(st, line) ==
    IF IsSkipped(line) THEN st
    ELSE IF IsContinuation(st, line) THEN ContinuationLine(st, line)
    ELSE LET m == item_number_pattern(line)
         IN  IF m.matched THEN StartLine(st, m) ELSE st

\* ------------------------------------------------------------------------
\* The table pass
\* ------------------------------------------------------------------------
\* if not row or len(row) < 2 or not row[0]: continue
RowSkipped(row) == Len(row) < 2 \/ ~Truthy(row[1])

\* the first cell, stripped, is a dotted item number
RowIsItem(row) == ~RowSkipped(row) /\ FullItemNumber(Strip(row[1]))

\* description.endswith(pattern) on a second cell that is None raises
\* AttributeError
RowRaises(row) == RowIsItem(row) /\ row[2] = None

\* the status searched in the cells after the second one
StatusFromCells(row) ==
    LET hits == { i \in 3..Len(row) :
                    Truthy(row[i]) /\ SearchStatusAnywhere(row[i]) # None }
    IN  IF hits = {} THEN << >>
        ELSE Upper(SearchStatusAnywhere(row[SetMin(hits)]))

\* the fields read from a table row whose first cell is an item number.
\* The status found at the end of the comment is assigned before
\* `status = ""` and is therefore lost; only the comment keeps the removal.
ParseRow(row) ==
    LET d0 == row[2]
        hasColon == Truthy(d0) /\ Contains(d0, << ":" >>)
        parts == IF hasColon THEN SplitColon(d0) ELSE << d0, << >> >>
        d1 == IF hasColon THEN Strip(parts[1]) ELSE d0
        comment_text == Strip(parts[2])
        comment == IF hasColon /\ Truthy(comment_text)
                   THEN EndswithLoop(comment_text).text
                   ELSE None
        e == EndswithLoop(d1)
        st == IF Truthy(e.status) THEN e.status ELSE StatusFromCells(row)
    IN  Item(Strip(row[1]), e.text, comment, st)

\* mutation of ProcessRow: the item is appended, its number is not marked
ProcessRowUnmarked(st, row) ==
    IF ~RowIsItem(row) THEN st
    ELSE LET new == ParseRow(row)
             st1 == [st EXCEPT !.status = new.status]
         IN  IF new.item_number \notin st1.items_seen
             THEN [st1 EXCEPT !.inspection_items = Append(@, new)]
             ELSE st1

\* the body of the loop over the rows of a table (rows that do not raise)
ProcessRow(st, row) ==
    IF ~RowIsItem(row) THEN st
    ELSE LET new == ParseRow(row)
             st1 == [st EXCEPT !.status = new.status]
         IN  IF new.item_number \notin st1.items_seen
             THEN [st1 EXCEPT !.items_seen = @ \cup {new.item_number},
                              !.inspection_items = Append(@, new)]
             ELSE st1

\* ------------------------------------------------------------------------
\* Inputs: lines and rows are built from their parts, so that a property can
\* name the item number, the description, the comment and the status token
\* a line or a row was written with.
\* ------------------------------------------------------------------------
N101 == << "1",".","0","1" >>
N102 == << "1",".","0","2" >>
N201 == << "2",".","0","1" >>

In(num, desc, comment, tok, cell) ==
    [num |-> num, desc |-> desc, comment |-> comment, tok |-> tok, cell |-> cell]

NoInput == In(None, None, None, None, None)

\* "<desc>[: <comment>][ <tok>]"
Fragment(inp) ==
    inp.desc
    \o (IF inp.comment = None THEN << >> ELSE << ":", " " >> \o inp.comment)
    \o (IF inp.tok = None THEN << >> ELSE << " " >> \o inp.tok)

\* the text of a line: "[<num> ]<desc>[: <comment>][ <tok>]"
LineText(inp) ==
    (IF inp.num = None THEN << >> ELSE inp.num \o << " " >>) \o Fragment(inp)

\* the cells of a row: [<num>, "<desc>[: <comment>][ <tok>]"|None[, <cell>]]
RowCells(inp) ==
    << inp.num, IF inp.desc = None THEN None ELSE Fragment(inp) >>
    \o (IF inp.cell = None THEN << >> ELSE << inp.cell >>)

LineInputs ==
    { In(N101, << "a" >>, None, None, None),          \* "1.01 a"
      In(N101, << "a" >>, None, TokOK, None),         \* "1.01 a OK"
      In(N201, << "b" >>, None, None, None),          \* "2.01 b"
      In(N201, << "b" >>, None, TokNOTOK, None),      \* "2.01 b NOT OK"
      In(N101, << "f" >>, << "e" >>, TokNOK, None),   \* "1.01 f: e NOK"
      In(N201, << "b" >>, << "e" >>, None, None),     \* "2.01 b: e"
      In(None, << "c" >>, None, None, None),          \* "c"
      In(None, << "c" >>, None, TokOK, None),         \* "c OK"
      In(None, << "c" >>, None, TokNOK, None),        \* "c NOK"
      In(None, << "c" >>, None, TokNotApplicable, None),  \* "c Not Applicable"
      In(None, << >>, None, None, None),              \* ""
      In(None, DmsMarker, None, None, None),          \* "0. DMS:"
      In(None, << "x", " " >> \o FormMarker, None, None, None) }
                                                      \* "x Service Inspection Form"

RowInputs ==
    { In(N102, << "d" >>, << "e" >>, TokNOK, None),   \* ["1.02", "d: e NOK"]
      In(N102, << "d" >>, None, TokNOTOK, None),      \* ["1.02", "d NOT OK"]
      In(N101, << "d" >>, None, None, TokOK),         \* ["1.01", "d", "OK"]
      In(N201, << "d" >>, None, None, TokNOK),        \* ["2.01", "d", "NOK"]
      In(N102, << "d" >>, None, TokNA, None),         \* ["1.02", "d N/A"]
      In(<< "x" >>, << "d" >>, None, None, None),     \* ["x", "d"]
      In(N102, None, None, None, None) }              \* ["1.02", None]

\* ------------------------------------------------------------------------
\* State
\* ------------------------------------------------------------------------
VARIABLES
    pc,                   \* "text", "table", "done" or "raised"
    nLines, nRows,        \* lines and rows read so far
    inspection_items,     \* the list that is returned
    items_seen,           \* the keys of the dict items_seen
    current_item_number, current_description, current_comment,
    status,               \* the local `status`, shared by both passes
    \* history variables, read by the properties only
    last,                 \* the last step: its input, its role, the state before
    textOrder,            \* item numbers in order of first start line
    tableCommitted,       \* item numbers committed by the table pass
    draft,                \* what the lines of the open item were written with
    drafts,               \* the drafts of the items that are no longer open
    flushLog,             \* one entry per flush: committed and own status
    shadow                \* the same run without the rows of seen numbers

\* the state of the other functions of the repository; each is run by a
\* specification of its own and stays idle in the others
VARIABLES
    \* the extraction of a trailing status, applied again to its own result
    fragment,             \* the text the extraction starts from
    site,                 \* "search" (re.search ...$) or "endswith" (the loop)
    extracted,            \* the results (text, status) of the applications
    \* process_pdf
    pdf_pc,               \* "idle", "start", "metadata", "extracted", "computed", "saved", "returned", "raised"
    metadata,             \* the dict returned by extract_metadata, as pairs
    compliance_data,      \* the result of calculate_compliance_ratio
    csvfile,              \* the rows written to output_path, None when no file
    \* process_directory
    dir_pc,               \* "idle", "start", "loop", "returned", "raised"
    pdf_files,            \* the PDFs of the directory, by what process_pdf does
    results,              \* the list `results`
    outputs,              \* the PDFs whose CSV was written
    report,               \* the rows of the processing report, None when no file
    \* _Service_Report._get_multiple_pages_table
    tab_pc,               \* "idle", "loop", "returned", "raised"
    has_table,            \* the pages on which camelot finds a table
    starting_page_number, ending_page_number,
    page_number,          \* the page the loop handles next
    tables,               \* the list `tables`
    final_table,          \* the concatenation that is returned
    \* Vestas_Report.find_starting_page and PDF._get_sif_page
    doc_pages,            \* the text of each page of the document
    fsp_pc,               \* "idle", "start", "loop", "close", "returned", "raised"
    doc,                  \* self.doc: the open document or None
    page_num,             \* the page find_starting_page examines next
    found_page,
    sif_pc,               \* "idle", "loop", "returned", "raised"
    sif_page_num,         \* the page _get_sif_page examines next
    sif_page,             \* the value _get_sif_page returns
    \* history variable of _get_multiple_pages_table
    requested,            \* the pages asked of _extract_single_page_table, in order
    \* _Service_Report._get_page
    gp_pc,                \* "idle", "start", "opened", "read", "returned", "raised"
    gp_page_number,       \* the argument page_number
    gp_page,              \* the text that is returned
    \* PDF.get_full_table
    ft_pc,                \* "idle", "loop", "returned", "raised"
    ft_page_num,          \* the page the loop handles next
    all_tables,           \* the list `all_tables`
    ft_requested          \* the pages asked of get_page_table, in order

extractVars ==
    << pc, nLines, nRows, inspection_items, items_seen, current_item_number,
       current_description, current_comment, status, last, textOrder,
       tableCommitted, draft, drafts, flushLog, shadow >>

\* the variables of extract_inspection_table but the list it returns
extractLocals ==
    << pc, nLines, nRows, items_seen, current_item_number,
       current_description, current_comment, status, last, textOrder,
       tableCommitted, draft, drafts, flushLog, shadow >>

statusVars == << fragment, site, extracted >>
pdfVars == << pdf_pc, metadata, compliance_data, csvfile >>
dirVars == << dir_pc, pdf_files, results, outputs, report >>
tablesVars == << tab_pc, has_table, starting_page_number, ending_page_number,
                 page_number, tables, final_table, requested >>
getPageVars == << gp_pc, gp_page_number, gp_page >>
fullTableVars == << ft_pc, ft_page_num, all_tables, ft_requested >>
pagesVars == << doc_pages, fsp_pc, doc, page_num, found_page, sif_pc,
                sif_page_num, sif_page, getPageVars, fullTableVars >>

\* what extract_inspection_table leaves alone
otherVars == << statusVars, pdfVars, dirVars, tablesVars, pagesVars >>

vars == << extractVars, statusVars, pdfVars, dirVars, tablesVars, pagesVars >>

IdleStatus == fragment = << >> /\ site = "none" /\ extracted = << >>

IdlePdf ==
    /\ pdf_pc = "idle"
    /\ metadata = << >>
    /\ compliance_data = None
    /\ csvfile = None

IdleDir ==
    /\ dir_pc = "idle"
    /\ pdf_files = << >>
    /\ results = << >>
    /\ outputs = {}
    /\ report = None

IdleTables ==
    /\ tab_pc = "idle"
    /\ has_table = {}
    /\ starting_page_number = 0
    /\ ending_page_number = 0
    /\ page_number = 0
    /\ tables = << >>
    /\ final_table = None
    /\ requested = << >>

\* None where a page index is expected (no page index is negative)
NoPage == -1

IdleGetPage ==
    /\ gp_pc = "idle"
    /\ gp_page_number = NoPage
    /\ gp_page = None

IdleFullTable ==
    /\ ft_pc = "idle"
    /\ ft_page_num = NoPage
    /\ all_tables = << >>
    /\ ft_requested = << >>

IdlePages ==
    /\ doc_pages = << >>
    /\ fsp_pc = "idle"
    /\ doc = None
    /\ page_num = NoPage
    /\ found_page = NoPage
    /\ sif_pc = "idle"
    /\ sif_page_num = NoPage
    /\ sif_page = NoPage
    /\ IdleGetPage
    /\ IdleFullTable

\* the locals of extract_inspection_table as one record
State ==
    [inspection_items |-> inspection_items, items_seen |-> items_seen,
     current_item_number |-> current_item_number,
     current_description |-> current_description,
     current_comment |-> current_comment, status |-> status]

SetState(st) ==
    /\ inspection_items' = st.inspection_items
    /\ items_seen' = st.items_seen
    /\ current_item_number' = st.current_item_number
    /\ current_description' = st.current_description
    /\ current_comment' = st.current_comment
    /\ status' = st.status

NoDraft ==
    [num |-> None, d |-> << >>, comment |-> None, tok |-> None,
     conts |-> << >>, lastTok |-> None, own |-> << >>]

Step(kind, inp, role) == [kind |-> kind, inp |-> inp, role |-> role, prev |-> State]

\* the role the text pass gives to a line
LineRole(st, line) ==
    IF IsSkipped(line) THEN "skipped"
    ELSE IF IsContinuation(st, line) THEN "continuation"
    ELSE IF item_number_pattern(line).matched THEN "start"
    ELSE "nomatch"

\* the locals of extract_inspection_table when it is entered
IdleExtract ==
    /\ pc = "text"
    /\ nLines = 0
    /\ nRows = 0
    /\ inspection_items = << >>
    /\ items_seen = {}
    /\ current_item_number = None
    /\ current_description = None
    /\ current_comment = None
    /\ status = Unbound
    /\ last = [kind |-> "init", inp |-> NoInput, role |-> "none",
               prev |-> [inspection_items |-> << >>, items_seen |-> {},
                         current_item_number |-> None,
                         current_description |-> None,
                         current_comment |-> None, status |-> Unbound]]
    /\ textOrder = << >>
    /\ tableCommitted = {}
    /\ draft = NoDraft
    /\ drafts = << >>
    /\ flushLog = {}
    /\ shadow = [inspection_items |-> << >>, items_seen |-> {},
                 current_item_number |-> None, current_description |-> None,
                 current_comment |-> None, status |-> Unbound]

Init == IdleExtract /\ IdleStatus /\ IdlePdf /\ IdleDir /\ IdleTables /\ IdlePages

\* the flush entry of a step from st: the status that is committed for the
\* open draft, next to the status its own lines carried
FlushEntries(st) ==
    IF FlushCurrent(st) # st
    THEN LET items == FlushCurrent(st).inspection_items
         IN  { [item_number |-> st.current_item_number,
                status |-> items[Len(items)].status,
                own |-> draft.own] }
    ELSE {}

\* one line of the text of a page
ReadLine(inp) ==
    LET line == LineText(inp)
        role == LineRole(State, line)
        next == ProcessLine(State, line)
    IN  /\ pc = "text"
        /\ nLines < MaxLines
        /\ nLines' = nLines + 1
        /\ SetState(next)
        /\ shadow' = next
        /\ last' = Step("line", inp, role)
        /\ textOrder' = IF role = "start" /\ inp.num \notin Range(textOrder)
                        THEN Append(textOrder, inp.num) ELSE textOrder
        /\ draft' = IF role = "start"
                    THEN [num |-> inp.num, d |-> inp.desc, comment |-> inp.comment,
                          tok |-> inp.tok, conts |-> << >>, lastTok |-> None,
                          own |-> IF inp.tok = None THEN << >> ELSE Upper(inp.tok)]
                    ELSE IF role = "continuation"
                    THEN [draft EXCEPT
                            !.conts = @ \o << " " >> \o inp.desc,
                            !.lastTok = inp.tok,
                            !.own = IF inp.tok = None THEN @ ELSE Upper(inp.tok)]
                    ELSE draft
        /\ drafts' = IF role = "start" /\ draft.num # None
                     THEN Append(drafts, draft) ELSE drafts
        /\ flushLog' = IF role = "start"
                       THEN flushLog \cup FlushEntries(State) ELSE flushLog
        /\ UNCHANGED << pc, nRows, tableCommitted >>
        /\ UNCHANGED otherVars

\* the loop over the pages' text ends, the loop over their tables starts
EndTextPass ==
    /\ pc = "text"
    /\ pc' = "table"
    /\ last' = Step("endtext", NoInput, "none")
    /\ drafts' = IF draft.num # None THEN Append(drafts, draft) ELSE drafts
    /\ UNCHANGED << nLines, nRows, inspection_items, items_seen,
                    current_item_number, current_description, current_comment,
                    status, textOrder, tableCommitted, draft, flushLog, shadow >>
    /\ UNCHANGED otherVars

\* one row of a table
ReadRow(inp) ==
    LET row == RowCells(inp)
        next == ProcessRow(State, row)
    IN  /\ pc = "table"
        /\ nRows < MaxRows
        /\ nRows' = nRows + 1
        /\ IF RowRaises(row)
           THEN /\ pc' = "raised"
                /\ last' = Step("row", inp, "raise")
                /\ UNCHANGED << inspection_items, items_seen, current_item_number,
                                current_description, current_comment, status,
                                tableCommitted, shadow >>
           ELSE /\ pc' = pc
                /\ SetState(next)
                /\ last' = Step("row", inp, IF RowIsItem(row) THEN "item" ELSE "skipped")
                /\ tableCommitted' =
                      IF Len(next.inspection_items) > Len(inspection_items)
                      THEN tableCommitted \cup {Strip(row[1])}
                      ELSE tableCommitted
                /\ shadow' = IF RowIsItem(row) /\ Strip(row[1]) \in items_seen
                             THEN shadow
                             ELSE ProcessRow(shadow, row)
        /\ UNCHANGED << nLines, textOrder, draft, drafts, flushLog >>
        /\ UNCHANGED otherVars

\* the statements after the table pass: the last flush and the return
Return ==
    /\ pc = "table"
    /\ pc' = "done"
    /\ SetState(FlushCurrent(State))
    /\ shadow' = FlushCurrent(shadow)
    /\ last' = Step("return", NoInput, "none")
    /\ flushLog' = flushLog \cup FlushEntries(State)
    /\ UNCHANGED << nLines, nRows, textOrder, tableCommitted, draft, drafts >>
    /\ UNCHANGED otherVars

Next ==
    \/ \E inp \in LineInputs : ReadLine(inp)
    \/ EndTextPass
    \/ \E inp \in RowInputs : ReadRow(inp)
    \/ Return

Spec == Init /\ [][Next]_vars

\* ------------------------------------------------------------------------
\* Types
\* ------------------------------------------------------------------------
TypeOK ==
    /\ pc \in {"text", "table", "done", "raised"}
    /\ nLines \in 0..MaxLines
    /\ nRows \in 0..MaxRows
    /\ \A i \in 1..Len(inspection_items) :
          DOMAIN inspection_items[i] = {"item_number", "description", "comment", "status"}

\* ------------------------------------------------------------------------
\* Properties
\* ------------------------------------------------------------------------
Numbers(items) == [ i \in 1..Len(items) |-> items[i].item_number ]
IndexesOf(items, n) == { i \in 1..Len(items) : items[i].item_number = n }

\* C1: in every state of both passes and in the returned list, no two entries
\* of inspection_items have the same item_number.
UniqueItemNumbers ==
    \A i, j \in 1..Len(inspection_items) :
        i # j => inspection_items[i].item_number # inspection_items[j].item_number

\* C1 witness: the run has returned after a second start line of a committed
\* number was merged and a table row of a seen number was read.
UniqueItemNumbersWitness ==
    /\ pc = "done"
    /\ Len(inspection_items) >= 2
    /\ \E i \in 1..Len(inspection_items) :
          inspection_items[i].description = << "a", " ", "a" >>
    /\ nRows >= 1
    /\ tableCommitted = {}
    /\ shadow.status # status

\* C2: in the returned list every item whose number was first seen on a text
\* line precedes every item that only the table pass found.
TextItemsBeforeTableItems ==
    pc = "done" =>
        \A i, j \in 1..Len(inspection_items) :
            ( /\ inspection_items[i].item_number \in Range(textOrder)
              /\ inspection_items[j].item_number \notin Range(textOrder) )
            => i < j

\* C3: the items committed from text lines appear in inspection_items in the
\* order in which their numbers first appeared on a start line.
NotFromTable(item) == item.item_number \notin tableCommitted
CommittedFromText(n) ==
    n \notin tableCommitted /\ IndexesOf(inspection_items, n) # {}
TextFirstSeenOrder ==
    Numbers(SelectSeq(inspection_items, NotFromTable))
        = SelectSeq(textOrder, CommittedFromText)

\* C3 witness: "2.01" was met before "1.01", one with an inline status and
\* one without, and both are in the returned list.
TextFirstSeenOrderWitness ==
    /\ pc = "done"
    /\ textOrder = << N201, N101 >>
    /\ Numbers(inspection_items) = << N201, N101 >>
    /\ tableCommitted = {}
    /\ inspection_items[1].status = << >>
    /\ inspection_items[2].status = TokOK

\* the drafts the continuation merge is about: the only start line of its
\* number, without status token and without comment, then continuation lines
\* of which the last ends in a token
IsMergeCase(k) ==
    /\ drafts[k].tok = None /\ drafts[k].comment = None
    /\ drafts[k].conts # << >> /\ drafts[k].lastTok # None
    /\ \A m \in 1..Len(drafts) : drafts[m].num = drafts[k].num => m = k

\* C4: for a start line "<n> <d>" without status followed by continuation
\* lines of which the last ends in token S, the returned list has exactly one
\* item n, with description d and the continuation texts joined by single
\* spaces, and status S.
ContinuationMerge ==
    pc = "done" =>
        \A k \in 1..Len(drafts) :
            IsMergeCase(k) =>
                /\ Cardinality(IndexesOf(inspection_items, drafts[k].num)) = 1
                /\ \A i \in IndexesOf(inspection_items, drafts[k].num) :
                      /\ inspection_items[i].description
                            = drafts[k].d \o drafts[k].conts
                      /\ inspection_items[i].status = Upper(drafts[k].lastTok)

\* the last step read a table row "<desc>: <comment> <TOKEN>" whose item
\* number was not in items_seen
IsRecoveryStep ==
    /\ last.kind = "row" /\ last.role = "item"
    /\ last.inp.num \notin last.prev.items_seen
    /\ last.inp.comment # None /\ last.inp.tok # None

\* C5: a table row [n, "<desc>: <comment> <TOKEN>"] with n not in items_seen
\* commits the item (n, desc, comment, TOKEN).
TableRecovery ==
    IsRecoveryStep =>
        /\ Len(inspection_items) = Len(last.prev.inspection_items) + 1
        /\ inspection_items[Len(inspection_items)] =
              Item(last.inp.num, last.inp.desc, last.inp.comment,
                   Upper(last.inp.tok))

\* the last step read a start line whose number was already committed
IsDuplicateStep ==
    /\ last.kind = "line" /\ last.role = "start"
    /\ last.inp.num \in last.prev.items_seen

\* the entry of the duplicate's number keeps item_number and status and has
\* the line's description (and comment) appended; the other entries are as
\* before; there is still one entry of that number
DuplicateMerged ==
    /\ Len(inspection_items) >= Len(last.prev.inspection_items)
    /\ Cardinality(IndexesOf(inspection_items, last.inp.num)) = 1
    /\ \A i \in 1..Len(last.prev.inspection_items) :
          LET old == last.prev.inspection_items[i]
              new == inspection_items[i]
          IN  IF old.item_number = last.inp.num
              THEN /\ new.item_number = old.item_number
                   /\ new.status = old.status
                   /\ new.description = old.description \o << " " >> \o last.inp.desc
                   /\ new.comment =
                         IF last.inp.comment = None THEN old.comment
                         ELSE IF Truthy(old.comment)
                         THEN old.comment \o << " " >> \o last.inp.comment
                         ELSE last.inp.comment
              ELSE new = old

\* the open draft of the state before the last step was still to be committed
DraftWasPending ==
    /\ Truthy(last.prev.current_item_number)
    /\ last.prev.current_item_number \notin last.prev.items_seen

\* C6 as stated: a start line of a committed number leaves the size of the
\* collection unchanged and appends its text to the existing entry.
DuplicateKeepsSize ==
    IsDuplicateStep =>
        /\ DuplicateMerged
        /\ Len(inspection_items) = Len(last.prev.inspection_items)

\* C6 amended: a start line of a committed number adds no entry of that
\* number and appends its text to the existing entry; the collection grows
\* by exactly the flush of a pending draft of another number, if there is one.
DuplicateAddsOnlyFlush ==
    IsDuplicateStep =>
        /\ DuplicateMerged
        /\ IF DraftWasPending
           THEN /\ Len(inspection_items) = Len(last.prev.inspection_items) + 1
                /\ inspection_items[Len(inspection_items)].item_number
                      = last.prev.current_item_number
                /\ last.prev.current_item_number # last.inp.num
           ELSE Len(inspection_items) = Len(last.prev.inspection_items)

\* C6 witness: a duplicate start line with a comment was merged into an entry
\* that had a comment, while a draft of another number was pending.
DuplicateWitness ==
    /\ IsDuplicateStep
    /\ DraftWasPending
    /\ last.inp.comment # None
    /\ \E i \in IndexesOf(last.prev.inspection_items, last.inp.num) :
          Truthy(last.prev.inspection_items[i].comment)

\* C7: a table row whose number is in items_seen is ignored: the returned
\* list equals the list returned when such rows are left out of the input.
SeenRowsIgnored ==
    pc = "done" => inspection_items = shadow.inspection_items

\* C8: every flush commits the status extracted from the draft's own start
\* line or continuation lines ("" when there was none).
FlushCommitsOwnStatus ==
    \A f \in flushLog : f.status = f.own

\* C9: the text of the continuation lines read while an item was current is
\* contained, joined by single spaces, in the description or the comment of
\* that item in the returned list.
ContinuationTextKept ==
    pc = "done" =>
        \A k \in 1..Len(drafts) :
            drafts[k].conts # << >> =>
                \A i \in IndexesOf(inspection_items, drafts[k].num) :
                    \/ Contains(inspection_items[i].description, drafts[k].conts)
                    \/ /\ Truthy(inspection_items[i].comment)
                       /\ Contains(inspection_items[i].comment, drafts[k].conts)

\* C10: at every extraction site a fragment that ends in "NOT OK" or "NOK"
\* yields that status, never "OK" with a leftover "NOT" or "N".
LongestTokenWins ==
    ( /\ last.kind \in {"line", "row"}
      /\ last.role \in {"start", "continuation", "item"}
      /\ last.inp.tok \in {TokNOTOK, TokNOK} )
    => status = Upper(last.inp.tok)

\* C12: extract_inspection_table never raises: for every sequence of lines
\* and every grid of nullable cells both passes complete and a list is
\* returned.
NeverRaises == pc # "raised"

\* the strings the enumeration {OK, NOT_OK, NOK, NOT_APPLICABLE, UNSET} stands
\* for, UNSET being the empty string
NOT_APPLICABLE == << "N", "O", "T", " ", "A", "P", "P", "L", "I", "C", "A", "B", "L", "E" >>

StatusEnumeration == { << >>, TokOK, TokNOTOK, TokNOK, NOT_APPLICABLE }

\* C20 as stated: the status of every committed item is one of the five
\* values of the enumeration.
StatusInEnumeration ==
    \A i \in 1..Len(inspection_items) :
        inspection_items[i].status \in StatusEnumeration

\* C20 amended: the status of every committed item is the empty string or
\* the upper-cased text of one of the five status tokens: "OK", "NOT OK",
\* "NOK", "N/A" or "NOT APPLICABLE" (six strings, "N/A" being stored as such).
StatusIsUpperToken ==
    \A i \in 1..Len(inspection_items) :
        inspection_items[i].status
            \in StatusEnumeration \cup { TokNA }

\* C20 witness: the returned list holds an item without status, one with
\* "NOT APPLICABLE" from the text pass and one with "N/A" from the table pass.
StatusIsUpperTokenWitness ==
    /\ pc = "done"
    /\ \E i \in 1..Len(inspection_items) : inspection_items[i].status = << >>
    /\ \E i \in 1..Len(inspection_items) :
          /\ inspection_items[i].status = NOT_APPLICABLE
          /\ inspection_items[i].item_number \notin tableCommitted
    /\ \E i \in 1..Len(inspection_items) :
          /\ inspection_items[i].status = TokNA
          /\ inspection_items[i].item_number \in tableCommitted

\* the last step read a continuation line that ends in a status token
IsContinuationWithToken ==
    /\ last.kind = "line" /\ last.role = "continuation"
    /\ last.inp.tok # None

\* the token is stripped, the rest of the line goes to the comment when one
\* is open and to the description otherwise
ContinuationTextAppended ==
    IF Truthy(last.prev.current_comment)
    THEN /\ current_comment = last.prev.current_comment \o << " " >> \o last.inp.desc
         /\ current_description = last.prev.current_description
    ELSE /\ current_description = last.prev.current_description \o << " " >> \o last.inp.desc
         /\ current_comment = last.prev.current_comment

\* C21: a continuation line that ends in a status token has the token
\* stripped and its text appended to the open comment, else to the
\* description; the token is the status of the open item in the returned
\* list (the token of the item's last such line) and no other entry changes.
ContinuationStatusPolicy ==
    /\ IsContinuationWithToken
          => /\ ContinuationTextAppended
             /\ status = Upper(last.inp.tok)
             /\ current_item_number = last.prev.current_item_number
             /\ inspection_items = last.prev.inspection_items
    /\ pc = "done"
          => \A k \in 1..Len(drafts) :
                drafts[k].lastTok # None
                    => \A i \in IndexesOf(inspection_items, drafts[k].num) :
                          inspection_items[i].status = Upper(drafts[k].lastTok)

\* the last step read a noise line: blank, or containing one of the two
\* markers, or, no item being open, not of the form "<number> <text>"
IsNoiseStep ==
    /\ last.kind = "line"
    /\ LET line == LineText(last.inp)
       IN  \/ \A i \in 1..Len(line) : IsSpace(line[i])
           \/ \E i \in 1..Len(line) : MatchAt(line, FormMarker, i)
           \/ \E i \in 1..Len(line) : MatchAt(line, DmsMarker, i)
           \/ /\ ~Truthy(last.prev.current_item_number)
              /\ last.inp.num = None

\* C22: a noise line changes neither the draft (current item number,
\* description, comment, status) nor items_seen nor inspection_items, whether
\* an item is open or not.
NoiseChangesNothing ==
    IsNoiseStep
        => /\ current_item_number = last.prev.current_item_number
           /\ current_description = last.prev.current_description
           /\ current_comment = last.prev.current_comment
           /\ status = last.prev.status
           /\ items_seen = last.prev.items_seen
           /\ inspection_items = last.prev.inspection_items

\* C22 witness: a line containing "Service Inspection Form" was read while an
\* item was open, after another item had been committed.
NoiseChangesNothingWitness ==
    /\ IsNoiseStep
    /\ Contains(LineText(last.inp), FormMarker)
    /\ Truthy(current_item_number)
    /\ current_item_number \notin items_seen
    /\ Len(inspection_items) = 1

\* C23: in every state of both passes items_seen is exactly the set of the
\* item numbers of the entries of inspection_items, and a step adds a number
\* to the one exactly when it adds an entry of that number to the other.
SeenIsCommitted ==
    /\ items_seen = Range(Numbers(inspection_items))
    /\ last.prev.items_seen = Range(Numbers(last.prev.inspection_items))
    /\ items_seen \ last.prev.items_seen
          = Range(Numbers(inspection_items)) \ Range(Numbers(last.prev.inspection_items))

\* C23 witness: three numbers are seen, committed by an inline status, by a
\* table row and by the last flush.
SeenIsCommittedWitness ==
    /\ pc = "done"
    /\ Cardinality(items_seen) = 3
    /\ Cardinality(tableCommitted) = 1
    /\ last.prev.items_seen # items_seen
    /\ \E f \in flushLog : f.item_number \in items_seen

IsPrefix(s, t) == Len(s) <= Len(t) /\ SubSeq(t, 1, Len(s)) = s

\* the entry old of the state before the last step is new in this state:
\* same number and status, description and comment grown at the end
GrownFrom(new, old) ==
    /\ new.item_number = old.item_number
    /\ new.status = old.status
    /\ IsPrefix(old.description, new.description)
    /\ IF Truthy(old.comment) THEN IsPrefix(old.comment, new.comment)
       ELSE new.comment = old.comment \/ Truthy(new.comment)

\* C24: a committed entry is never removed and never moves, its item_number
\* and status never change, its description and comment only grow by text
\* appended at the end (stated for every step, hence for every later state).
CommittedAppendOnly ==
    /\ Len(inspection_items) >= Len(last.prev.inspection_items)
    /\ \A i \in 1..Len(last.prev.inspection_items) :
          GrownFrom(inspection_items[i], last.prev.inspection_items[i])

\* C24 witness: a start line of a committed number made the first of two
\* entries grow, in description and in comment, while the second stayed.
CommittedAppendOnlyWitness ==
    /\ Len(last.prev.inspection_items) = 2
    /\ Len(inspection_items) = 2
    /\ inspection_items[1].description # last.prev.inspection_items[1].description
    /\ Truthy(last.prev.inspection_items[1].comment)
    /\ inspection_items[1].comment # last.prev.inspection_items[1].comment
    /\ inspection_items[2] = last.prev.inspection_items[2]

\* ------------------------------------------------------------------------
\* The extraction of a trailing status, as a function of a text fragment
\* ------------------------------------------------------------------------
MaxFragmentLen == 6

FragmentAlphabet == { "N", "O", "T", "K", " " }

Fragments == UNION { [1..n -> FragmentAlphabet] : n \in 0..MaxFragmentLen }

\* status_match = re.search(r'(...)$', line); status = group(1).upper();
\* additional_text = line[:status_match.start()].strip()
\* (None when there is no match: the line is taken whole)
SearchExtract(text) ==
    LET k == SearchStatusAtEnd(text)
    IN  IF k > 0
        THEN [text |-> Strip(SubSeq(text, 1, k - 1)), status |-> Upper(From(text, k))]
        ELSE [text |-> text, status |-> None]

\* the text the next application starts from
Remaining == IF extracted = << >> THEN fragment ELSE extracted[Len(extracted)].text

InitStatus ==
    /\ IdleExtract /\ IdlePdf /\ IdleDir /\ IdleTables /\ IdlePages
    /\ fragment \in Fragments
    /\ site \in { "search", "endswith" }
    /\ extracted = << >>

\* the extraction of a continuation line, applied to what is left
ExtractBySearch ==
    /\ site = "search"
    /\ Len(extracted) < 2
    /\ extracted' = Append(extracted, SearchExtract(Remaining))
    /\ UNCHANGED << fragment, site, extractVars, pdfVars, dirVars, tablesVars, pagesVars >>

\* the extraction of a description or a comment, applied to what is left
ExtractByEndswith ==
    /\ site = "endswith"
    /\ Len(extracted) < 2
    /\ extracted' = Append(extracted, EndswithLoop(Remaining))
    /\ UNCHANGED << fragment, site, extractVars, pdfVars, dirVars, tablesVars, pagesVars >>

NextStatus == ExtractBySearch \/ ExtractByEndswith

SpecStatus == InitStatus /\ [][NextStatus]_vars

\* the second application returned its input and no status
SecondIsNoOp ==
    /\ extracted[2].text = extracted[1].text
    /\ ~Truthy(extracted[2].status)

\* every occurrence of a status token in t ends at the end of t
TokensOnlyAtEnd(t) ==
    \A i \in 1..Len(t) : \A j \in 1..Len(status_patterns) :
        MatchAt(t, status_patterns[j], i) => i + Len(status_patterns[j]) - 1 = Len(t)

\* C11 as stated: for every fragment t, extracting from the text that the
\* extraction of t left returns that text unchanged and no status.
ExtractionIdempotent ==
    Len(extracted) = 2 => SecondIsNoOp

\* C11 amended: the same for every fragment in which status tokens occur only
\* at the very end (one trailing token, no token before it); a fragment that
\* ends in stacked tokens loses one token per application.
SingleTokenExtractionIdempotent ==
    (Len(extracted) = 2 /\ TokensOnlyAtEnd(fragment)) => SecondIsNoOp

\* C11 witness: "NOT OK" went through the endswith loop twice: the first
\* application returned a status, the second none.
SingleTokenExtractionWitness ==
    /\ Len(extracted) = 2
    /\ site = "endswith"
    /\ fragment = TokNOTOK
    /\ TokensOnlyAtEnd(fragment)
    /\ Truthy(extracted[1].status)
    /\ ~Truthy(extracted[2].status)

\* ------------------------------------------------------------------------
\* process_pdf: metadata, extraction, compliance ratio, CSV

MaxItems == 3

ZeroDivisionError == << "ZeroDivisionError" >>

N202 == << "2",".","0","2" >>

\* the item lists extract_inspection_table can hand over: distinct item
\* numbers, any order, a description that may start with a digit, a status
\* that may be empty
ItemDescriptions == { << "a" >>, << "7" >> }
ItemStatuses == { << >>, TokOK, TokNOK }
ItemCollections ==
    { c \in UNION { [1..n -> [item_number : { N101, N102, N201, N202 },
                              description : ItemDescriptions,
                              comment : { None },
                              status : ItemStatuses]] : n \in 0..MaxItems } :
        \A i, j \in 1..Len(c) : c[i].item_number = c[j].item_number => i = j }

\* the dict extract_metadata returns, as its (key, value) pairs in insertion
\* order
KeyTurbineNumber ==
    << "t","u","r","b","i","n","e","_","n","u","m","b","e","r" >>
KeyServiceOrder ==
    << "s","e","r","v","i","c","e","_","o","r","d","e","r" >>
Metadatas ==
    { << >>,
      << << KeyTurbineNumber, << "7" >> >> >>,
      << << KeyTurbineNumber, << "7" >> >>, << KeyServiceOrder, << "9" >> >> >> }

\* mutation of items_with_status: every item counts
items_with_status_all(items) == items

\* [item for item in inspection_items if item['status']]
items_with_status(items) == SelectSeq(items, LAMBDA item : Truthy(item.status))

\* ok_items / total_items raises when total_items is 0
DivisionRaises(total_items) == total_items = 0

\* (ok_items / total_items) * 100, in hundredths of a percent
Percent(ok_items, total_items) == (ok_items * 10000) \div total_items

\* mutation of calculate_compliance_ratio: neither guard
calculate_compliance_ratio_unguarded(items) ==
    LET total_items == Len(items_with_status(items))
        ok_items == Len(SelectSeq(items_with_status(items),
                                  LAMBDA item : item.status = TokOK))
    IN  IF DivisionRaises(total_items) THEN ZeroDivisionError
        ELSE << ok_items, total_items, Percent(ok_items, total_items) >>

calculate_compliance_ratio(items) ==
    IF items = << >> THEN << 0, 0, 0 >>
    ELSE LET total_items == Len(items_with_status(items))
             ok_items == Len(SelectSeq(items_with_status(items),
                                       LAMBDA item : item.status = TokOK))
         IN  IF total_items > 0
             THEN (IF DivisionRaises(total_items) THEN ZeroDivisionError
                   ELSE << ok_items, total_items, Percent(ok_items, total_items) >>)
             ELSE << ok_items, total_items, 0 >>

\* what csv.writer writes for a cell: None becomes the empty string
CsvCell(v) == IF v = None THEN << >> ELSE v

Row(a, b, c, d, e) == << CsvCell(a), CsvCell(b), CsvCell(c), CsvCell(d), CsvCell(e) >>

\* item_number.split('.')[0]
SectionNumber(item_number) ==
    LET dots == { i \in 1..Len(item_number) : item_number[i] = "." }
    IN  IF dots = {} THEN item_number
        ELSE SubSeq(item_number, 1, SetMin(dots) - 1)

StartsWith(s, prefix) ==
    /\ Len(prefix) <= Len(s)
    /\ SubSeq(s, 1, Len(prefix)) = prefix

\* the description of the first item of the section whose description is
\* not empty and does not start with a digit, else ""
SectionTitle(items, section_number) ==
    LET hits == { i \in 1..Len(items) :
                    /\ StartsWith(items[i].item_number, section_number \o << "." >>)
                    /\ Truthy(items[i].description)
                    /\ ~IsDigit(items[i].description[1]) }
    IN  IF hits = {} THEN << >> ELSE items[SetMin(hits)].description

\* the three rows written first
HeaderRows ==
    << Row(<< "0" >>, << "1" >>, << "2" >>, << "3" >>, << "4" >>),
       Row(<< >>, << >>, << >>, << >>, << >>),
       Row(FormMarker, << >>, << >>, << >>, << >>) >>

RECURSIVE MetadataRows(_)
MetadataRows(md) ==
    IF md = << >> THEN << >>
    ELSE (IF md[1][1] = << >> THEN << >>
          ELSE << Row(md[1][1], md[1][2], << >>, << >>, << >>) >>)
         \o MetadataRows(Tail(md))

\* the loop over the items from item i on, current_section being the section
\* of the row written last
RECURSIVE ItemRows(_, _, _)
ItemRows(items, i, current_section) ==
    IF i > Len(items) THEN << >>
    ELSE LET item == items[i]
             section_number == SectionNumber(item.item_number)
             header == IF section_number # current_section
                       THEN << Row(section_number, SectionTitle(items, section_number),
                                   << >>, << >>, << >>) >>
                       ELSE << >>
         IN  header
             \o << Row(item.item_number, item.description, item.comment,
                       item.status, << >>) >>
             \o ItemRows(items, i + 1, section_number)

\* mutation of save_to_csv: no file for an empty item list
save_to_csv_unless_empty(md, items) ==
    IF items = << >> THEN None
    ELSE HeaderRows \o MetadataRows(md) \o ItemRows(items, 1, None)

save_to_csv(md, items) ==
    HeaderRows \o MetadataRows(md) \o ItemRows(items, 1, None)

InitPdf ==
    /\ IdleExtract /\ IdleStatus /\ IdleDir /\ IdleTables /\ IdlePages
    /\ pdf_pc = "start"
    /\ metadata = << >>
    /\ compliance_data = None
    /\ csvfile = None

\* metadata = extract_metadata(pdf)
ExtractMetadata ==
    /\ pdf_pc = "start"
    /\ metadata' \in Metadatas
    /\ pdf_pc' = "metadata"
    /\ UNCHANGED << compliance_data, csvfile, extractVars, statusVars, dirVars,
                    tablesVars, pagesVars >>

\* inspection_items = extract_inspection_table(pdf)
ExtractInspectionTable ==
    /\ pdf_pc = "metadata"
    /\ inspection_items' \in ItemCollections
    /\ pdf_pc' = "extracted"
    /\ UNCHANGED << metadata, compliance_data, csvfile, extractLocals, statusVars,
                    dirVars, tablesVars, pagesVars >>

\* extract_inspection_table raised: nothing is bound, process_pdf ends
ExtractInspectionTableRaises ==
    /\ pdf_pc = "metadata"
    /\ pdf_pc' = "raised"
    /\ UNCHANGED << metadata, compliance_data, csvfile, extractVars, statusVars,
                    dirVars, tablesVars, pagesVars >>

\* compliance_data = calculate_compliance_ratio(inspection_items)
CalculateComplianceRatio ==
    /\ pdf_pc = "extracted"
    /\ compliance_data' = calculate_compliance_ratio(inspection_items)
    /\ pdf_pc' = IF compliance_data' = ZeroDivisionError THEN "raised" ELSE "computed"
    /\ UNCHANGED << metadata, csvfile, extractVars, statusVars, dirVars,
                    tablesVars, pagesVars >>

\* save_to_csv(metadata, inspection_items, compliance_data, output_path)
SaveToCsv ==
    /\ pdf_pc = "computed"
    /\ csvfile' = save_to_csv(metadata, inspection_items)
    /\ pdf_pc' = "saved"
    /\ UNCHANGED << metadata, compliance_data, extractVars, statusVars, dirVars,
                    tablesVars, pagesVars >>

\* return metadata, inspection_items, compliance_data
ReturnPdf ==
    /\ pdf_pc = "saved"
    /\ pdf_pc' = "returned"
    /\ UNCHANGED << metadata, compliance_data, csvfile, extractVars, statusVars,
                    dirVars, tablesVars, pagesVars >>

NextPdf ==
    \/ ExtractMetadata
    \/ ExtractInspectionTable
    \/ ExtractInspectionTableRaises
    \/ CalculateComplianceRatio
    \/ SaveToCsv
    \/ ReturnPdf

SpecPdf == InitPdf /\ [][NextPdf]_vars

\* the extraction has returned its list
Extracted == pdf_pc \in { "extracted", "computed", "saved", "returned" }
Computed == compliance_data # None

NoStatusAtAll ==
    \A i \in 1..Len(inspection_items) : inspection_items[i].status = << >>

\* C15: whenever no item has a non-empty status (empty list, or every status
\* empty), calculate_compliance_ratio returns ratio 0 and no division error.
ZeroRatioWithoutStatus ==
    (Computed /\ NoStatusAtAll)
        => /\ compliance_data # ZeroDivisionError
           /\ compliance_data[3] = 0

\* C15 witness: the ratio was computed for a list of three items, all
\* without status.
ZeroRatioWithoutStatusWitness ==
    /\ Computed
    /\ NoStatusAtAll
    /\ Len(inspection_items) = 3
    /\ compliance_data = << 0, 0, 0 >>

CountWithStatus ==
    Cardinality({ i \in 1..Len(inspection_items) : inspection_items[i].status # << >> })
CountOK ==
    Cardinality({ i \in 1..Len(inspection_items) : inspection_items[i].status = TokOK })

\* C16: total_with_status is the number of items with a non-empty status and
\* ok_count the number of items with status OK, so
\* 0 <= ok_count <= total_with_status <= number of items.
ComplianceCounts ==
    Computed
        => /\ compliance_data # ZeroDivisionError
           /\ compliance_data[1] = CountOK
           /\ compliance_data[2] = CountWithStatus
           /\ 0 <= compliance_data[1]
           /\ compliance_data[1] <= compliance_data[2]
           /\ compliance_data[2] <= Len(inspection_items)

\* C16 witness: three items, one OK, one NOK, one without status.
ComplianceCountsWitness ==
    /\ Computed
    /\ Len(inspection_items) = 3
    /\ compliance_data[1] = 1
    /\ compliance_data[2] = 2
    /\ compliance_data[3] = 5000

\* the rows of the CSV after the leading rows and the metadata rows
ItemPart == SubSeq(csvfile, Len(HeaderRows) + Len(MetadataRows(metadata)) + 1, Len(csvfile))
Sections == { SectionNumber(inspection_items[i].item_number) : i \in 1..Len(inspection_items) }
HeadersOf(section_number) ==
    { k \in 1..Len(ItemPart) : ItemPart[k][1] = section_number }
RowsOf(item) ==
    { k \in 1..Len(ItemPart) : ItemPart[k][1] = item.item_number }

\* C19: in the CSV, every section has exactly one header row, which precedes
\* every item row of the section, and every item has exactly one item row,
\* whatever the order of the items.
OneHeaderPerSection ==
    pdf_pc \in { "saved", "returned" }
        => /\ \A sec \in Sections :
                /\ Cardinality(HeadersOf(sec)) = 1
                /\ \A i \in 1..Len(inspection_items) :
                      SectionNumber(inspection_items[i].item_number) = sec
                          => \A h \in HeadersOf(sec) :
                                \A k \in RowsOf(inspection_items[i]) : h < k
           /\ \A i \in 1..Len(inspection_items) :
                 Cardinality(RowsOf(inspection_items[i])) = 1

\* ------------------------------------------------------------------------
\* process_directory: one process_pdf call per file, then the report

MaxFiles == 3

\* what process_pdf does with a file: it raises (an exception of
\* pdfplumber.open, extract_metadata or extract_inspection_table), or it
\* returns for a document without items or with items
PdfKinds == { "raises", "empty", "items" }

PdfListings == UNION { [1..n -> PdfKinds] : n \in 0..MaxFiles }

ItemsOfKind(kind) ==
    IF kind = "items"
    THEN << Item(N101, << "a" >>, None, TokOK), Item(N102, << "a" >>, None, TokNOK) >>
    ELSE << >>

\* fieldnames of the processing report
ReportHeader ==
    << "pdf_file", "output_file", "ok_items", "total_items", "compliance_ratio" >>

\* the dict appended to results, as the row DictWriter writes for it
ResultRow(pdf_file, compliance) ==
    << pdf_file, pdf_file, compliance[1], compliance[2], compliance[3] >>

InitDir ==
    /\ IdleExtract /\ IdleStatus /\ IdlePdf /\ IdleTables /\ IdlePages
    /\ dir_pc = "start"
    /\ pdf_files \in PdfListings
    /\ results = << >>
    /\ outputs = {}
    /\ report = None

\* if not pdf_files: return
ReturnNoFiles ==
    /\ dir_pc = "start"
    /\ pdf_files = << >>
    /\ dir_pc' = "returned"
    /\ UNCHANGED << pdf_files, results, outputs, report, extractVars, statusVars,
                    pdfVars, tablesVars, pagesVars >>

\* results = []
EnterLoop ==
    /\ dir_pc = "start"
    /\ pdf_files # << >>
    /\ dir_pc' = "loop"
    /\ UNCHANGED << pdf_files, results, outputs, report, extractVars, statusVars,
                    pdfVars, tablesVars, pagesVars >>

\* one iteration: process_pdf returns, its CSV is written, results.append
ProcessPdfReturns ==
    /\ dir_pc = "loop"
    /\ Len(results) < Len(pdf_files)
    /\ LET pdf_file == Len(results) + 1
           kind == pdf_files[pdf_file]
       IN  /\ kind # "raises"
           /\ outputs' = outputs \cup { pdf_file }
           /\ results' = Append(results,
                  ResultRow(pdf_file, calculate_compliance_ratio(ItemsOfKind(kind))))
    /\ UNCHANGED << dir_pc, pdf_files, report, extractVars, statusVars, pdfVars,
                    tablesVars, pagesVars >>

\* one iteration: process_pdf raises; nothing catches it, process_directory
\* ends with the exception
ProcessPdfRaises ==
    /\ dir_pc = "loop"
    /\ Len(results) < Len(pdf_files)
    /\ pdf_files[Len(results) + 1] = "raises"
    /\ dir_pc' = "raised"
    /\ UNCHANGED << pdf_files, results, outputs, report, extractVars, statusVars,
                    pdfVars, tablesVars, pagesVars >>

\* after the loop: the report is written and results returned
WriteReport ==
    /\ dir_pc = "loop"
    /\ Len(results) = Len(pdf_files)
    /\ report' = << ReportHeader >> \o results
    /\ dir_pc' = "returned"
    /\ UNCHANGED << pdf_files, results, outputs, extractVars, statusVars, pdfVars,
                    tablesVars, pagesVars >>

NextDir ==
    \/ ReturnNoFiles
    \/ EnterLoop
    \/ ProcessPdfReturns
    \/ ProcessPdfRaises
    \/ WriteReport

SpecDir == InitDir /\ [][NextDir]_vars

\* C14: when process_pdf fails for one file of the batch, process_directory
\* does not end there: it ends only when every file of the batch has been
\* handled (a CSV for each file that did not fail) and the report, with one
\* entry per file, is written.
BatchSurvivesFailure ==
    (dir_pc \in { "returned", "raised" } /\ pdf_files # << >>)
        => /\ dir_pc = "returned"
           /\ report # None
           /\ Len(report) = 1 + Len(pdf_files)
           /\ outputs = { i \in 1..Len(pdf_files) : pdf_files[i] # "raises" }

\* ------------------------------------------------------------------------
\* _Service_Report._get_multiple_pages_table

MaxPage == 3

\* the DataFrame of the first table of a page: two rows, each naming its page
PageTable(page) == << << page, 1 >>, << page, 2 >> >>

\* pd.concat(tables, ignore_index=True): the rows of the frames, in order
RECURSIVE Concat(_)
Concat(frames) ==
    IF frames = << >> THEN << >> ELSE frames[1] \o Concat(Tail(frames))

InitTables ==
    /\ IdleExtract /\ IdleStatus /\ IdlePdf /\ IdleDir /\ IdlePages
    /\ tab_pc = "loop"
    /\ has_table \in SUBSET (1..MaxPage)
    /\ starting_page_number \in 1..MaxPage
    /\ ending_page_number \in 1..MaxPage
    /\ page_number = starting_page_number
    /\ tables = << >>
    /\ final_table = None
    /\ requested = << >>

\* an iteration whose _extract_single_page_table returns a table
AppendPageTable ==
    /\ tab_pc = "loop"
    /\ page_number <= ending_page_number
    /\ page_number \in has_table
    /\ tables' = Append(tables, PageTable(page_number))
    /\ requested' = Append(requested, page_number)
    /\ page_number' = page_number + 1
    /\ UNCHANGED << tab_pc, has_table, starting_page_number, ending_page_number,
                    final_table, extractVars, statusVars, pdfVars, dirVars, pagesVars >>

\* mutation of SkipPage: the ValueError of the page is not caught
SkipPageUncaught ==
    /\ tab_pc = "loop"
    /\ page_number <= ending_page_number
    /\ page_number \notin has_table
    /\ requested' = Append(requested, page_number)
    /\ tab_pc' = "raised"
    /\ UNCHANGED << page_number, has_table, starting_page_number, ending_page_number,
                    tables, final_table, extractVars, statusVars, pdfVars, dirVars,
                    pagesVars >>

\* an iteration whose _extract_single_page_table raises ValueError("No table
\* found in page ..."): except ValueError: continue
SkipPage ==
    /\ tab_pc = "loop"
    /\ page_number <= ending_page_number
    /\ page_number \notin has_table
    /\ requested' = Append(requested, page_number)
    /\ page_number' = page_number + 1
    /\ UNCHANGED << tab_pc, has_table, starting_page_number, ending_page_number,
                    tables, final_table, extractVars, statusVars, pdfVars, dirVars,
                    pagesVars >>

\* if not tables: raise ValueError("No table found in document")
RaiseNoTable ==
    /\ tab_pc = "loop"
    /\ page_number > ending_page_number
    /\ tables = << >>
    /\ tab_pc' = "raised"
    /\ UNCHANGED << requested, page_number, has_table, starting_page_number, ending_page_number,
                    tables, final_table, extractVars, statusVars, pdfVars, dirVars,
                    pagesVars >>

\* final_table = pd.concat(tables, ignore_index=True); return final_table
ConcatTables ==
    /\ tab_pc = "loop"
    /\ page_number > ending_page_number
    /\ tables # << >>
    /\ final_table' = Concat(tables)
    /\ tab_pc' = "returned"
    /\ UNCHANGED << requested, page_number, has_table, starting_page_number, ending_page_number,
                    tables, extractVars, statusVars, pdfVars, dirVars, pagesVars >>

NextTables ==
    \/ AppendPageTable
    \/ SkipPage
    \/ RaiseNoTable
    \/ ConcatTables

SpecTables == InitTables /\ [][NextTables]_vars

\* the pages of start..end that have a table
PagesWithTable == has_table \cap (starting_page_number..ending_page_number)

\* C17: the result is the concatenation, in ascending page order, of the
\* tables of exactly the pages of start..end that have a table; a page
\* without table is skipped, and ValueError is raised only when no page of
\* the range has a table.
MultiPageConcatenation ==
    /\ tab_pc = "returned"
          => /\ PagesWithTable # {}
             /\ Len(final_table) = 2 * Cardinality(PagesWithTable)
             /\ \A p \in PagesWithTable :
                   \E k \in 1..(Len(final_table) - 1) :
                       /\ final_table[k] = << p, 1 >>
                       /\ final_table[k + 1] = << p, 2 >>
             /\ \A i, j \in 1..Len(final_table) :
                   i < j => final_table[i][1] <= final_table[j][1]
    /\ tab_pc = "raised" => PagesWithTable = {}

\* C17 witness: pages 1..3 were asked for, page 2 has no table and was
\* skipped, and the tables of pages 1 and 3 were returned.
MultiPageConcatenationWitness ==
    /\ tab_pc = "returned"
    /\ starting_page_number = 1
    /\ ending_page_number = 3
    /\ has_table = { 1, 3 }
    /\ Len(final_table) = 4

\* ------------------------------------------------------------------------
\* Vestas_Report.find_starting_page and PDF._get_sif_page

MaxPages == 3

\* the text of a page: the marker alone, the marker inside other text, the
\* marker in lower case, no marker
PageTexts ==
    { FormMarker,
      << "x", " " >> \o FormMarker \o << " ", "y" >>,
      << "s","e","r","v","i","c","e"," ","i","n","s","p","e","c","t","i","o",
         "n"," ","f","o","r","m" >>,
      << "x" >> }

Documents == UNION { [1..n -> PageTexts] : n \in 0..MaxPages }

\* the handle fitz.open returns
Document == << "Document" >>

InitPages ==
    /\ IdleExtract /\ IdleStatus /\ IdlePdf /\ IdleDir /\ IdleTables
    /\ doc_pages \in Documents
    /\ fsp_pc = "start"
    /\ doc = None
    /\ page_num = NoPage
    /\ found_page = NoPage
    /\ sif_pc = "loop"
    /\ sif_page_num = 0
    /\ sif_page = NoPage
    /\ IdleGetPage
    /\ IdleFullTable

\* self._open(); found_page = None
FspOpen ==
    /\ fsp_pc = "start"
    /\ doc' = Document
    /\ found_page' = NoPage
    /\ page_num' = 0
    /\ fsp_pc' = "loop"
    /\ UNCHANGED << doc_pages, sif_pc, sif_page_num, sif_page, extractVars,
                    statusVars, pdfVars, dirVars, tablesVars,
                    getPageVars, fullTableVars >>

\* mutation of FspExaminePage: no break at the marker page
FspExaminePageNoBreak ==
    /\ fsp_pc = "loop"
    /\ page_num < Len(doc_pages)
    /\ found_page' = IF Contains(doc_pages[page_num + 1], FormMarker)
                     THEN page_num ELSE found_page
    /\ page_num' = page_num + 1
    /\ UNCHANGED << doc_pages, doc, fsp_pc, sif_pc, sif_page_num, sif_page,
                    extractVars, statusVars, pdfVars, dirVars, tablesVars,
                    getPageVars, fullTableVars >>

\* one iteration of for page_num in range(len(self.doc))
FspExaminePage ==
    /\ fsp_pc = "loop"
    /\ page_num < Len(doc_pages)
    /\ IF Contains(doc_pages[page_num + 1], FormMarker)
       THEN /\ found_page' = page_num
            /\ fsp_pc' = "close"
            /\ UNCHANGED page_num
       ELSE /\ page_num' = page_num + 1
            /\ UNCHANGED << found_page, fsp_pc >>
    /\ UNCHANGED << doc_pages, doc, sif_pc, sif_page_num, sif_page, extractVars,
                    statusVars, pdfVars, dirVars, tablesVars,
                    getPageVars, fullTableVars >>

\* the range is exhausted
FspLoopEnd ==
    /\ fsp_pc = "loop"
    /\ page_num = Len(doc_pages)
    /\ fsp_pc' = "close"
    /\ UNCHANGED << doc_pages, doc, page_num, found_page, sif_pc, sif_page_num,
                    sif_page, extractVars, statusVars, pdfVars, dirVars, tablesVars,
                    getPageVars, fullTableVars >>

\* self._close(); return found_page, or raise ValueError
FspClose ==
    /\ fsp_pc = "close"
    /\ doc' = None
    /\ fsp_pc' = IF found_page # NoPage THEN "returned" ELSE "raised"
    /\ UNCHANGED << doc_pages, page_num, found_page, sif_pc, sif_page_num,
                    sif_page, extractVars, statusVars, pdfVars, dirVars, tablesVars,
                    getPageVars, fullTableVars >>

\* one iteration of for page_num in range(self.page_numbers)
SifExaminePage ==
    /\ sif_pc = "loop"
    /\ sif_page_num < Len(doc_pages)
    /\ IF Contains(doc_pages[sif_page_num + 1], FormMarker)
       THEN /\ sif_page' = sif_page_num
            /\ sif_pc' = "returned"
            /\ UNCHANGED sif_page_num
       ELSE /\ sif_page_num' = sif_page_num + 1
            /\ UNCHANGED << sif_page, sif_pc >>
    /\ UNCHANGED << doc_pages, fsp_pc, doc, page_num, found_page, extractVars,
                    statusVars, pdfVars, dirVars, tablesVars,
                    getPageVars, fullTableVars >>

\* the range is exhausted: raise ValueError
SifRaise ==
    /\ sif_pc = "loop"
    /\ sif_page_num = Len(doc_pages)
    /\ sif_pc' = "raised"
    /\ UNCHANGED << doc_pages, sif_page_num, sif_page, fsp_pc, doc, page_num,
                    found_page, extractVars, statusVars, pdfVars, dirVars, tablesVars,
                    getPageVars, fullTableVars >>

NextPages ==
    \/ FspOpen
    \/ FspExaminePage
    \/ FspLoopEnd
    \/ FspClose
    \/ SifExaminePage
    \/ SifRaise

SpecPages == InitPages /\ [][NextPages]_vars

\* the 0-based indexes of the pages whose text contains the marker
MarkerPages ==
    { i \in 0..(Len(doc_pages) - 1) : Contains(doc_pages[i + 1], FormMarker) }

\* C18: find_starting_page and PDF._get_sif_page return the smallest index of
\* a page containing "Service Inspection Form", and raise ValueError exactly
\* when no page contains it.
FirstMarkerPage ==
    /\ fsp_pc = "returned" => (MarkerPages # {} /\ found_page = SetMin(MarkerPages))
    /\ fsp_pc = "raised" => MarkerPages = {}
    /\ sif_pc = "returned" => (MarkerPages # {} /\ sif_page = SetMin(MarkerPages))
    /\ sif_pc = "raised" => MarkerPages = {}

\* C18 witness: both functions returned page 1 for a document whose page 0
\* has the marker in lower case only and whose pages 1 and 2 contain it.
FirstMarkerPageWitness ==
    /\ fsp_pc = "returned"
    /\ sif_pc = "returned"
    /\ found_page = 1
    /\ sif_page = 1
    /\ MarkerPages = { 1, 2 }
    /\ ~Contains(doc_pages[1], FormMarker)

\* ------------------------------------------------------------------------
\* one report object: find_starting_page, then _get_page

InitReport ==
    /\ IdleExtract /\ IdleStatus /\ IdlePdf /\ IdleDir /\ IdleTables
    /\ doc_pages \in Documents
    /\ fsp_pc = "start"
    /\ doc = None
    /\ page_num = NoPage
    /\ found_page = NoPage
    /\ sif_pc = "idle"
    /\ sif_page_num = NoPage
    /\ sif_page = NoPage
    /\ gp_pc = "start"
    /\ gp_page_number \in 0..MaxPages
    /\ gp_page = None
    /\ IdleFullTable

\* self._open()
GetPageOpen ==
    /\ gp_pc = "start"
    /\ fsp_pc \in { "returned", "raised" }
    /\ doc' = Document
    /\ gp_pc' = "opened"
    /\ UNCHANGED << gp_page_number, gp_page, doc_pages, fsp_pc, page_num, found_page,
                    sif_pc, sif_page_num, sif_page, fullTableVars, extractVars,
                    statusVars, pdfVars, dirVars, tablesVars >>

\* page = self.doc[page_number].get_text(), for a page of the document
GetPageRead ==
    /\ gp_pc = "opened"
    /\ gp_page_number < Len(doc_pages)
    /\ gp_page' = doc_pages[gp_page_number + 1]
    /\ gp_pc' = "read"
    /\ UNCHANGED << gp_page_number, doc, doc_pages, fsp_pc, page_num, found_page,
                    sif_pc, sif_page_num, sif_page, fullTableVars, extractVars,
                    statusVars, pdfVars, dirVars, tablesVars >>

\* self.doc[page_number] raises IndexError: _get_page ends there
GetPageIndexError ==
    /\ gp_pc = "opened"
    /\ gp_page_number >= Len(doc_pages)
    /\ gp_pc' = "raised"
    /\ UNCHANGED << gp_page_number, gp_page, doc, doc_pages, fsp_pc, page_num,
                    found_page, sif_pc, sif_page_num, sif_page, fullTableVars,
                    extractVars, statusVars, pdfVars, dirVars, tablesVars >>

\* self._close(); return page
GetPageClose ==
    /\ gp_pc = "read"
    /\ doc' = None
    /\ gp_pc' = "returned"
    /\ UNCHANGED << gp_page_number, gp_page, doc_pages, fsp_pc, page_num, found_page,
                    sif_pc, sif_page_num, sif_page, fullTableVars, extractVars,
                    statusVars, pdfVars, dirVars, tablesVars >>

NextReport ==
    \/ FspOpen
    \/ FspExaminePage
    \/ FspLoopEnd
    \/ FspClose
    \/ GetPageOpen
    \/ GetPageRead
    \/ GetPageIndexError
    \/ GetPageClose

SpecReport == InitReport /\ [][NextReport]_vars

\* C25: after find_starting_page has completed and after _get_page has
\* completed, by returning or by raising, report.doc is None.
NoHandleLeftOpen ==
    /\ (fsp_pc \in { "returned", "raised" } /\ gp_pc = "start") => doc = None
    /\ gp_pc \in { "returned", "raised" } => doc = None

\* ------------------------------------------------------------------------
\* Vestas_Report._extract_full_table and PDF.get_full_table on one document

InitFullTable ==
    /\ IdleExtract /\ IdleStatus /\ IdlePdf /\ IdleDir
    /\ doc_pages \in Documents
    /\ has_table \in SUBSET (1..Len(doc_pages))
    /\ tab_pc = "idle"
    /\ starting_page_number = 0
    /\ ending_page_number = 0
    /\ page_number = 0
    /\ tables = << >>
    /\ final_table = None
    /\ requested = << >>
    /\ fsp_pc = "start"
    /\ doc = None
    /\ page_num = NoPage
    /\ found_page = NoPage
    /\ sif_pc = "loop"
    /\ sif_page_num = 0
    /\ sif_page = NoPage
    /\ IdleGetPage
    /\ IdleFullTable

\* mutation of ExtractFullTable: the 0-based index of the form page is
\* passed on as it is
ExtractFullTableZeroBased ==
    /\ fsp_pc = "returned"
    /\ tab_pc = "idle"
    /\ starting_page_number' = found_page
    /\ ending_page_number' = Len(doc_pages)
    /\ page_number' = found_page
    /\ tables' = << >>
    /\ tab_pc' = "loop"
    /\ UNCHANGED << has_table, final_table, requested, pagesVars, extractVars,
                    statusVars, pdfVars, dirVars >>

\* _extract_full_table once find_starting_page has returned:
\* starting_page = found page + 1, ending_page = len(self.doc) (read between
\* an _open and a _close), then _get_multiple_pages_table is entered
ExtractFullTable ==
    /\ fsp_pc = "returned"
    /\ tab_pc = "idle"
    /\ starting_page_number' = found_page + 1
    /\ ending_page_number' = Len(doc_pages)
    /\ page_number' = found_page + 1
    /\ tables' = << >>
    /\ tab_pc' = "loop"
    /\ UNCHANGED << has_table, final_table, requested, pagesVars, extractVars,
                    statusVars, pdfVars, dirVars >>

\* get_full_table of a PDF object, whose constructor has set sif_page:
\* all_tables = []
GetFullTable ==
    /\ sif_pc = "returned"
    /\ ft_pc = "idle"
    /\ ft_page_num' = sif_page
    /\ all_tables' = << >>
    /\ ft_pc' = "loop"
    /\ UNCHANGED << ft_requested, getPageVars, doc_pages, fsp_pc, doc, page_num,
                    found_page, sif_pc, sif_page_num, sif_page, extractVars,
                    statusVars, pdfVars, dirVars, tablesVars >>

\* an iteration of range(self.sif_page, self.page_numbers) whose
\* get_page_table(page_num + 1) returns a table
FtAppendPageTable ==
    /\ ft_pc = "loop"
    /\ ft_page_num < Len(doc_pages)
    /\ ft_page_num + 1 \in has_table
    /\ all_tables' = Append(all_tables, PageTable(ft_page_num + 1))
    /\ ft_requested' = Append(ft_requested, ft_page_num + 1)
    /\ ft_page_num' = ft_page_num + 1
    /\ UNCHANGED << ft_pc, getPageVars, doc_pages, fsp_pc, doc, page_num,
                    found_page, sif_pc, sif_page_num, sif_page, extractVars,
                    statusVars, pdfVars, dirVars, tablesVars >>

\* an iteration whose get_page_table raises ValueError: continue
FtSkipPage ==
    /\ ft_pc = "loop"
    /\ ft_page_num < Len(doc_pages)
    /\ ft_page_num + 1 \notin has_table
    /\ ft_requested' = Append(ft_requested, ft_page_num + 1)
    /\ ft_page_num' = ft_page_num + 1
    /\ UNCHANGED << ft_pc, all_tables, getPageVars, doc_pages, fsp_pc, doc, page_num,
                    found_page, sif_pc, sif_page_num, sif_page, extractVars,
                    statusVars, pdfVars, dirVars, tablesVars >>

\* if not all_tables: raise ValueError
FtRaiseNoTable ==
    /\ ft_pc = "loop"
    /\ ft_page_num = Len(doc_pages)
    /\ all_tables = << >>
    /\ ft_pc' = "raised"
    /\ UNCHANGED << ft_page_num, all_tables, ft_requested, getPageVars, doc_pages,
                    fsp_pc, doc, page_num, found_page, sif_pc, sif_page_num,
                    sif_page, extractVars, statusVars, pdfVars, dirVars, tablesVars >>

\* return pd.concat(all_tables, ignore_index=True)
FtConcatTables ==
    /\ ft_pc = "loop"
    /\ ft_page_num = Len(doc_pages)
    /\ all_tables # << >>
    /\ ft_pc' = "returned"
    /\ UNCHANGED << ft_page_num, all_tables, ft_requested, getPageVars, doc_pages,
                    fsp_pc, doc, page_num, found_page, sif_pc, sif_page_num,
                    sif_page, extractVars, statusVars, pdfVars, dirVars, tablesVars >>

NextFullTable ==
    \/ FspOpen
    \/ FspExaminePage
    \/ FspLoopEnd
    \/ FspClose
    \/ ExtractFullTable
    \/ AppendPageTable
    \/ SkipPage
    \/ RaiseNoTable
    \/ ConcatTables
    \/ SifExaminePage
    \/ SifRaise
    \/ GetFullTable
    \/ FtAppendPageTable
    \/ FtSkipPage
    \/ FtRaiseNoTable
    \/ FtConcatTables

SpecFullTable == InitFullTable /\ [][NextFullTable]_vars

\* the 1-based pages from the first marker page to the last page
FormPagesToEnd ==
    IF MarkerPages = {} THEN << >>
    ELSE [ i \in 1..(Len(doc_pages) - SetMin(MarkerPages)) |-> SetMin(MarkerPages) + i ]

\* C26: for a document of N pages whose first marker page has 0-based index
\* s, _extract_full_table asks for the 1-based pages s+1, ..., N, each once
\* and in ascending order, and PDF.get_full_table asks for the same pages.
SamePagesRequested ==
    /\ IsPrefix(requested, FormPagesToEnd)
    /\ IsPrefix(ft_requested, FormPagesToEnd)
    /\ tab_pc \in { "returned", "raised" } => requested = FormPagesToEnd
    /\ ft_pc \in { "returned", "raised" } => ft_requested = FormPagesToEnd
    /\ (tab_pc \in { "returned", "raised" } /\ ft_pc \in { "returned", "raised" })
          => requested = ft_requested

\* C26 witness: three pages, the form starts on the second; page 2 has no
\* table and page 3 has one; both functions asked for pages 2 and 3.
SamePagesRequestedWitness ==
    /\ tab_pc = "returned"
    /\ ft_pc = "returned"
    /\ Len(doc_pages) = 3
    /\ MarkerPages = { 1 }
    /\ has_table = { 3 }
    /\ requested = << 2, 3 >>
    /\ ft_requested = << 2, 3 >>

====
